---- MODULE Spec2Model ----
(***************************************************************************)
(* The two slide navigators of js/api-client.js, StoryCarousel and         *)
(* AdvancedHeroCarousel, as one state machine.  A behaviour follows one    *)
(* carousel instance (kind says which class it is) from the end of its     *)
(* constructor through input events, method calls on the instance that     *)
(* the page publishes on window, and the ticks and callbacks of the        *)
(* interval timers it creates with setInterval.                            *)
(*                                                                         *)
(* The scroll engines of the same file (ProgressiveScrollReveal,           *)
(* ScrollReveal3D, SmoothScrollAnimations, StoryScrollEffects and the      *)
(* requestAnimationFrame throttle) are a second state machine, SpecScroll, *)
(* over the variables page, seen and step.  The operations of firebaseAuth *)
(* and handleLogout of js/firebase-auth.js are a third, SpecAuth, over     *)
(* call and flow.  The remaining parts of the page (the API client, the    *)
(* event sink, the users collection, the start of the hero carousel, the   *)
(* newsletter form, the scroll-depth tracker, the music) have one variable *)
(* and one specification each.                                             *)
(***************************************************************************)
EXTENDS Integers, Sequences, FiniteSets, TLC

\* ------------------------------------------------------------- bounds
\* Largest number of slides a page carries in the model.
MaxSlides == 5
\* Live interval timers the model lets exist at once (setInterval itself
\* has no limit; scheduling is cut off here).
MaxTimers == 2
\* Resolution of the clock: ticks in one auto-play interval.
TicksPerInterval == 2
\* How far outside [0, N) an index passed to goToSlide may lie.
MaxOut == 1
\* How far the unwrapped position of a next/prev sequence may run away
\* from [0, N) before a new sequence is started at the current cursor.
MaxLag == 1
\* document.documentElement.scrollHeight of the page that is scrolled.
ScrollHeight == 40
\* How far an overscroll carries pageYOffset below 0 or past the end.
MaxOver == 2
\* Scroll events delivered within one animation frame.
MaxBurst == 2
\* Top and height of the #story section in the document.
StoryTop == 5
StoryHeight == 20
\* Number of .story-slide elements of the page that is scrolled.
StorySlides == 2

\* -------------------------------------------------- program constants
\* setInterval period of StoryCarousel.startAutoPlay, in ms.
StoryIntervalMs == 5000
\* setInterval period of AdvancedHeroCarousel.startAutoPlay, in ms.
HeroIntervalMs == 4000
\* const threshold = 50 of both handleSwipe methods.
SwipeThreshold == 50

Kinds == {"story", "hero"}

\* The <<startX, endX>> of the swipes tried: no movement, and movements of
\* one pixel less than the threshold, the threshold and one pixel more,
\* to the left and to the right.
Swipes ==
    {<<0, 0>>}
    \cup {<<0, d>> : d \in (SwipeThreshold - 1)..(SwipeThreshold + 1)}
    \cup {<<d, 0>> : d \in (SwipeThreshold - 1)..(SwipeThreshold + 1)}

Keys == {"ArrowLeft", "ArrowRight", "Enter"}

VARIABLES
    car,        \* the carousel instance, its DOM and its interval timers
    hover,      \* the pointer is inside .advanced-carousel
    last,       \* the last step: an input's name, "timer" or "tick"
    hist,       \* the inputs so far: "fresh", the only one's name, "other"
    byHand,     \* the last input was a navigation by the user's hand
    idle,       \* ticks since the last input, up to TicksPerInterval + 1
    lin,        \* unwrapped position of the running next/prev sequence
    page,       \* the window, the elements and the state of the scroll engines
    seen,       \* the reveal marks that have been set at some time
    step,       \* the last step of the scroll engines
    call,       \* the operation of firebaseAuth the page called
    flow,       \* the logout that handleLogout runs
    api,        \* window.gameAPI and the access token in localStorage
    sink,       \* the global trackEvent and what its calls reached
    usr,        \* the users collection and the operations that write it
    boot,       \* the construction of window.advancedHeroCarousel
    news,       \* the newsletter form and its submit listeners
    thr,        \* the throttled scroll-depth tracker of GameAnalytics
    music       \* the background music and its delayed auto-start

carVars == <<car, hover, last, hist, byHand, idle, lin>>

scrollVars == <<page, seen, step>>

authVars == <<call, flow>>

siteVars == <<api, sink, usr, boot, news, thr, music>>

vars == <<carVars, scrollVars, authVars, siteVars>>

\* The value of the variables of a part of the page that a specification
\* does not follow.
NotFollowed == <<>>

\* --------------------------------------------------------- arithmetic
\* The number NaN of JavaScript, as an integer no index, count or
\* coordinate of the model comes near.
NaN == 0 - 999

\* a + b and a * b of JavaScript numbers: NaN when an operand is NaN.
JsAdd(a, b) == IF a = NaN \/ b = NaN THEN NaN ELSE a + b

JsMul(a, b) == IF a = NaN \/ b = NaN THEN NaN ELSE a * b

\* The % operator of JavaScript: the remainder takes the sign of the
\* dividend (-1 % 3 is -1), and a % 0 and NaN % n are NaN.
JsMod(a, n) ==
    IF a = NaN \/ n = NaN \/ n = 0 THEN NaN
    ELSE IF a >= 0 THEN a % n
    ELSE 0 - ((0 - a) % n)

Abs(x) == IF x < 0 THEN 0 - x ELSE x

Min(a, b) == IF a < b THEN a ELSE b

\* What a handler did: its calls of nextSlide and prevSlide, its
\* assignments of the cursor in goToSlide, its renders, the events it
\* tracked, the <<startX, endX>> it was given when it is a swipe, and
\* whether it ended by raising a TypeError.
NoCalls ==
    [next |-> 0, prev |-> 0, set |-> 0, render |-> 0, events |-> <<>>, swipe |-> <<>>,
     raised |-> FALSE]

\* The statement raised: what follows it in the handler does not run.
Raise(s) == [s EXCEPT !.calls.raised = TRUE]

\* A call of the global trackEvent made by StoryCarousel.trackEvent, when
\* the handler reaches it.
TrackEvent(s, eventName) ==
    IF s.calls.raised THEN s
    ELSE [s EXCEPT !.calls.events = Append(@, eventName)]

\* ------------------------------------------------------------- timers
IntervalMs(k) == IF k = "story" THEN StoryIntervalMs ELSE HeroIntervalMs

\* Timer ids are opaque to the program: it keeps one, in autoPlayInterval,
\* and passes it to clearInterval; a timer whose id it dropped can never be
\* cleared.  States are kept up to a renaming of the ids: the id the
\* instance holds is 1, and the other live timers are 2, 3, ... in the
\* order of the time left to their callbacks.
Dropped(s) == DOMAIN s.timers \ {s.autoPlayInterval}

NthDue(s, j) ==
    CHOOSE d \in 0..TicksPerInterval :
        /\ Cardinality({t \in Dropped(s) : s.timers[t] < d}) < j
        /\ Cardinality({t \in Dropped(s) : s.timers[t] <= d}) >= j

Renamed(s) ==
    LET k == Cardinality(Dropped(s))
        held == IF s.autoPlayInterval \in DOMAIN s.timers THEN {1} ELSE {}
    IN [s EXCEPT !.autoPlayInterval = IF @ = 0 THEN 0 ELSE 1,
                 !.timers = [i \in held \cup 2..(k + 1) |->
                                IF i = 1 THEN s.timers[s.autoPlayInterval]
                                ELSE NthDue(s, i - 1)]]

\* The id setInterval returns: one no live timer has and that the
\* instance does not still hold from an earlier call.
FreshId(s) ==
    CHOOSE i \in 1..(MaxTimers + 2) :
        /\ i \notin DOMAIN s.timers
        /\ i # s.autoPlayInterval
        /\ \A j \in 1..(i - 1) : j \in DOMAIN s.timers \/ j = s.autoPlayInterval

\* Ticks until the first callback of a timer scheduled now.
FirstDue == TicksPerInterval

\* this.autoPlayInterval = setInterval(() => this.nextSlide(), period)
SetInterval(s) ==
    LET id == FreshId(s)
    IN [s EXCEPT !.timers = id :> FirstDue @@ @,
                 !.autoPlayInterval = id]

\* clearInterval(id): no effect when id names no live timer.
ClearInterval(s, id) ==
    [s EXCEPT !.timers = [t \in DOMAIN @ \ {id} |-> @[t]]]

\* ---------------------------------------------------------- rendering
\* progressBar.style.width: ((cursor + 1) / total) * 100 percent, kept as
\* the fraction <<numerator, denominator>> of a percentage.
Progress(c, n) == <<JsMul(JsAdd(c, 1), 100), n>>

\* Inline style of a slide after "Remove all positioning classes".
Cleared(item) ==
    [item EXCEPT !.active = FALSE, !.left = "", !.transform = "", !.zIndex = ""]

\* The slide's place relative to the active one, as updateCarousel
\* computes it.
RelativeIndex(index, c, n) == JsMod(index - c + n, n)

\* One pass of the items.forEach body of updateCarousel over a slide
\* that the previous render left without the clearing of its style.
ItemStyleKeep(item, index, c, n) ==
    LET base == [item EXCEPT !.active = FALSE]
        rel == RelativeIndex(index, c, n)
    IN IF index = c
         THEN [base EXCEPT !.active = TRUE, !.left = "50%",
                           !.transform = "translateX(-50%) scale(1.35)",
                           !.zIndex = "5"]
       ELSE IF rel = 1 THEN [base EXCEPT !.left = "90px", !.zIndex = "2"]
       ELSE IF rel = 2 THEN [base EXCEPT !.left = "250px", !.zIndex = "1"]
       ELSE IF rel = 3 THEN [base EXCEPT !.left = "-90px", !.zIndex = "2"]
       ELSE base

\* One pass of the items.forEach body of updateCarousel.
ItemStyle(item, index, c, n) ==
    LET base == Cleared(item)
        rel == RelativeIndex(index, c, n)
    IN IF index = c
         THEN [base EXCEPT !.active = TRUE, !.left = "50%",
                           !.transform = "translateX(-50%) scale(1.35)",
                           !.zIndex = "5"]
       ELSE IF rel = 1 THEN [base EXCEPT !.left = "90px", !.zIndex = "2"]
       ELSE IF rel = 2 THEN [base EXCEPT !.left = "250px", !.zIndex = "1"]
       ELSE IF rel = 3 THEN [base EXCEPT !.left = "-90px", !.zIndex = "2"]
       ELSE base

\* classList of the indicator marks after a render: active exactly on
\* the mark whose index is the cursor.
Marks(old, c) == [i \in DOMAIN old |-> i = c]

\* AdvancedHeroCarousel.updateCarousel: the width is written under
\* if (this.progressBar), and this.dots may be an empty list.
UpdateCarousel(s) ==
    [s EXCEPT !.items = [i \in DOMAIN @ |->
                            ItemStyle(@[i], i, s.currentIndex, s.totalItems)],
              !.indicators = Marks(@, s.currentIndex),
              !.progress = IF s.dom.progress
                             THEN Progress(s.currentIndex, s.totalItems)
                             ELSE @,
              !.calls.render = @ + 1]

\* StoryCarousel.updateSlide: progressBar.style is read with no test of
\* progressBar, after the transform of the track was written.
UpdateSlide(s) ==
    LET moved == [s EXCEPT !.track = JsMul(s.currentIndex, 100),
                           !.calls.render = @ + 1]
    IN IF ~s.dom.progress THEN Raise(moved)
       ELSE TrackEvent(
                [moved EXCEPT !.progress = Progress(s.currentIndex, s.totalItems),
                              !.indicators = Marks(@, s.currentIndex)],
                "story_slide_view")

Render(s) == IF s.kind = "story" THEN UpdateSlide(s) ELSE UpdateCarousel(s)

\* --------------------------------------------------------- navigation
\* (cursor - 1) % total, the decrement without the + total.
PrevIndexNoWrap(c, n) == JsMod(JsAdd(c, 0 - 1), n)

\* (cursor + 1) % total
NextIndex(c, n) == JsMod(JsAdd(c, 1), n)

\* (cursor - 1 + total) % total
PrevIndex(c, n) == JsMod(JsAdd(JsAdd(c, 0 - 1), n), n)

\* nextSlide() of both classes
NextSlide(s) ==
    Render([s EXCEPT !.currentIndex = NextIndex(@, s.totalItems),
                     !.calls.next = @ + 1])

\* prevSlide() of both classes
PrevSlide(s) ==
    Render([s EXCEPT !.currentIndex = PrevIndex(@, s.totalItems),
                     !.calls.prev = @ + 1])

\* The guard of AdvancedHeroCarousel.goToSlide.
InRange(index, n) == index >= 0 /\ index < n

\* AdvancedHeroCarousel.goToSlide(index)
HeroGoToSlide(s, index) ==
    IF InRange(index, s.totalItems)
      THEN UpdateCarousel([s EXCEPT !.currentIndex = index, !.calls.set = @ + 1])
      ELSE s

\* StoryCarousel.goToSlide(index)
StoryGoToSlide(s, index) ==
    TrackEvent(
        UpdateSlide([s EXCEPT !.currentIndex = index, !.calls.set = @ + 1]),
        "story_navigation")

GoToSlide(s, index) ==
    IF s.kind = "story" THEN StoryGoToSlide(s, index) ELSE HeroGoToSlide(s, index)

\* ---------------------------------------------------------- auto-play
\* StoryCarousel.updateAutoPlayButton
UpdateAutoPlayButton(s) == [s EXCEPT !.button = s.isAutoPlaying]

\* StoryCarousel.startAutoPlay
StoryStartAutoPlay(s) ==
    SetInterval(UpdateAutoPlayButton([s EXCEPT !.isAutoPlaying = TRUE]))

\* StoryCarousel.stopAutoPlay
StoryStopAutoPlay(s) ==
    LET b == UpdateAutoPlayButton([s EXCEPT !.isAutoPlaying = FALSE])
    IN IF b.autoPlayInterval # 0
         THEN [ClearInterval(b, b.autoPlayInterval) EXCEPT !.autoPlayInterval = 0]
         ELSE b

\* StoryCarousel.toggleAutoPlay
StoryToggleAutoPlay(s) ==
    TrackEvent(
        IF s.isAutoPlaying THEN StoryStopAutoPlay(s) ELSE StoryStartAutoPlay(s),
        "story_autoplay_toggle")

\* startAutoPlay without the test of isAutoPlaying.
HeroStartAutoPlayUnguarded(s) == SetInterval(s)

\* AdvancedHeroCarousel.startAutoPlay
HeroStartAutoPlay(s) == IF s.isAutoPlaying THEN SetInterval(s) ELSE s

\* AdvancedHeroCarousel.pauseAutoPlay: the handle is cleared, not reset.
PauseAutoPlay(s) ==
    IF s.autoPlayInterval # 0 THEN ClearInterval(s, s.autoPlayInterval) ELSE s

\* AdvancedHeroCarousel.resumeAutoPlay
ResumeAutoPlay(s) == IF s.isAutoPlaying THEN HeroStartAutoPlay(s) ELSE s

\* AdvancedHeroCarousel.resetAutoPlay
ResetAutoPlay(s) == ResumeAutoPlay(PauseAutoPlay(s))

\* AdvancedHeroCarousel.toggleAutoPlay
HeroToggleAutoPlay(s) ==
    LET f == [s EXCEPT !.isAutoPlaying = ~@]
    IN IF f.isAutoPlaying THEN HeroStartAutoPlay(f) ELSE PauseAutoPlay(f)

StartAutoPlay(s) ==
    IF s.kind = "story" THEN StoryStartAutoPlay(s) ELSE HeroStartAutoPlay(s)

ToggleAutoPlay(s) ==
    IF s.kind = "story" THEN StoryToggleAutoPlay(s) ELSE HeroToggleAutoPlay(s)

\* -------------------------------------------------------------- swipe
\* The test of handleSwipe with >= in place of >.
SwipeDirAtThreshold(startX, endX) ==
    LET diff == startX - endX
    IN IF Abs(diff) >= SwipeThreshold
         THEN (IF diff > 0 THEN "next" ELSE "prev")
         ELSE "none"

\* What handleSwipe decides from the two coordinates.
SwipeDir(startX, endX) ==
    LET diff == startX - endX
    IN IF Abs(diff) > SwipeThreshold
         THEN (IF diff > 0 THEN "next" ELSE "prev")
         ELSE "none"

\* handleSwipe(startX, endX) of both classes; the hero's resets auto-play
\* after it navigated.
HandleSwipe(s, startX, endX) ==
    LET dir == SwipeDir(startX, endX)
        nav == IF dir = "next" THEN NextSlide(s) ELSE PrevSlide(s)
    IN IF dir = "none" THEN s
       ELSE IF s.kind = "hero" THEN ResetAutoPlay(nav)
       ELSE nav

\* ----------------------------------------------------- event handlers
\* click on #prevBtn
OnPrevBtn(s) ==
    IF s.kind = "story"
      THEN TrackEvent(PrevSlide(s), "story_navigation")
      ELSE ResetAutoPlay(PrevSlide(s))

\* click on #nextBtn
OnNextBtn(s) ==
    IF s.kind = "story"
      THEN TrackEvent(NextSlide(s), "story_navigation")
      ELSE ResetAutoPlay(NextSlide(s))

\* click on a .story-indicator made by createIndicators, or on a .dot
OnIndicator(s, index) ==
    IF s.kind = "story"
      THEN StoryGoToSlide(s, index)
      ELSE ResetAutoPlay(HeroGoToSlide(s, index))

\* click on a .carousel-item
OnItem(s, index) ==
    IF index # s.currentIndex
      THEN ResetAutoPlay(HeroGoToSlide(s, index))
      ELSE s

\* keydown on document
OnKeyDown(s, key) ==
    LET nav == IF key = "ArrowLeft" THEN PrevSlide(s) ELSE NextSlide(s)
    IN IF key \notin {"ArrowLeft", "ArrowRight"} THEN s
       ELSE IF s.kind = "hero" THEN ResetAutoPlay(nav)
       ELSE nav

\* -------------------------------------------------------- construction
BlankItem == [active |-> FALSE, left |-> "", transform |-> "", zIndex |-> ""]

\* The elements of the page the render steps look up: d.indicators says
\* that #storyIndicators, or the .dot marks of the hero, are there, and
\* d.progress that #storyProgress, or #progressBar, is.
Doms == [indicators : BOOLEAN, progress : BOOLEAN]

FullDom == [indicators |-> TRUE, progress |-> TRUE]

\* The fields the two constructors set before they call init(), on a page
\* with n slides and the elements d.  Nothing listens to an event yet, and
\* the page has not stored the instance on window.
Fields(k, n, d) ==
    [kind |-> k,
     totalItems |-> n,
     currentIndex |-> 0,
     autoPlayInterval |-> 0,
     isAutoPlaying |-> FALSE,
     timers |-> <<>>,
     items |-> IF k = "hero" THEN [i \in 0..(n - 1) |-> BlankItem] ELSE <<>>,
     indicators |-> IF k = "hero" /\ d.indicators
                      THEN [i \in 0..(n - 1) |-> FALSE]
                      ELSE <<>>,
     progress |-> <<0, 1>>,
     track |-> 0,
     button |-> FALSE,
     dom |-> d,
     listeners |-> FALSE,
     published |-> FALSE,
     calls |-> NoCalls]

\* StoryCarousel.createIndicators: one mark per slide, the first active;
\* indicatorsContainer.innerHTML is written with no test of the container.
CreateIndicators(s) ==
    IF ~s.dom.indicators THEN Raise(s)
    ELSE [s EXCEPT !.indicators = [i \in 0..(s.totalItems - 1) |-> i = 0]]

\* setupEventListeners() of both classes
SetupEventListeners(s) == [s EXCEPT !.listeners = TRUE]

\* StoryCarousel.init(), each call made when the one before it returned.
StoryInit(s) ==
    LET a == CreateIndicators(s)
        b == IF a.calls.raised THEN a ELSE SetupEventListeners(a)
        c == IF b.calls.raised THEN b ELSE UpdateSlide(b)
    IN IF c.calls.raised THEN c ELSE StoryStartAutoPlay(c)

\* StoryCarousel constructor
StoryConstruct(n, d) == StoryInit(Fields("story", n, d))

\* AdvancedHeroCarousel.init()
HeroInit(s) == UpdateCarousel(SetupEventListeners(s))

\* AdvancedHeroCarousel constructor: if (this.totalItems > 0) this.init()
HeroConstruct(n, d) ==
    IF n > 0 THEN HeroInit(Fields("hero", n, d)) ELSE Fields("hero", n, d)

\* window.storyCarousel = new StoryCarousel(), and the same of the hero:
\* the assignment is reached when the constructor returned.
Construct(k, n, d) ==
    LET s == IF k = "story" THEN StoryConstruct(n, d) ELSE HeroConstruct(n, d)
    IN [s EXCEPT !.published = ~s.calls.raised, !.calls = NoCalls]

\* ------------------------------------------------------------ history
\* A next/prev sequence that starts at cursor c.
StartSeq(c, n) == [ok |-> InRange(c, n), at |-> IF InRange(c, n) THEN c ELSE 0]

\* The unwrapped position after a step that made the calls counted in
\* s1.calls: initial + next calls - previous calls, started again at the
\* cursor after a goToSlide or when it runs MaxLag away from [0, N).
Advance(l, s1) ==
    LET n == s1.totalItems
        a == l.at + s1.calls.next - s1.calls.prev
    IN IF s1.calls.set > 0 \/ ~l.ok THEN StartSeq(s1.currentIndex, n)
       ELSE IF a < 0 - MaxLag \/ a > n - 1 + MaxLag THEN StartSeq(s1.currentIndex, n)
       ELSE [ok |-> TRUE, at |-> a]

Begin(s) == [s EXCEPT !.calls = NoCalls]

\* The inputs that are remembered while they are the only one so far.
FirstInputs == {"startAutoPlay", "toggleAutoPlay"}

\* The events by which the user navigates: the buttons, an indicator, a
\* slide, an arrow key, a swipe.
NavEvents == {"prevBtn", "nextBtn", "indicator", "item", "keydown", "touchend"}

\* The step called nextSlide, prevSlide or set the cursor in goToSlide.
Navigated(s) == s.calls.next + s.calls.prev + s.calls.set > 0

\* One run of an event handler or of a method called on the instance,
\* that leaves the instance as s1 and the pointer as h.
Input(op, s1, h) ==
    /\ Cardinality(DOMAIN s1.timers) <= MaxTimers
    /\ car' = Renamed(s1)
    /\ hover' = h
    /\ last' = op
    /\ hist' = IF hist = "fresh" /\ op \in FirstInputs THEN op ELSE "other"
    /\ byHand' = (op \in NavEvents /\ Navigated(s1))
    /\ idle' = 0
    /\ lin' = Advance(lin, s1)
    /\ UNCHANGED <<scrollVars, authVars, siteVars>>

\* A call from the page of a method of the instance it stored on window.
Method(op, s1, h) == car.published /\ Input(op, s1, h)

\* An event that reaches a listener the instance bound.
Event(op, s1, h) == car.listeners /\ Input(op, s1, h)

\* The other state of the carousel after construction.
Constructed ==
    /\ hover = FALSE
    /\ last = "init"
    /\ hist = "fresh"
    /\ byHand = FALSE
    /\ idle = 0
    /\ lin = StartSeq(0, car.totalItems)

\* The scroll engines are left aside.
NoScroll ==
    /\ page = NotFollowed
    /\ seen = NotFollowed
    /\ step = "init"

\* The identity service is left aside.
NoAuth ==
    /\ call = NotFollowed
    /\ flow = NotFollowed

\* The other parts of the page, each followed with the value given for it
\* or left aside with NotFollowed.
Site(a, s, u, b, n, t, m) ==
    /\ api = a
    /\ sink = s
    /\ usr = u
    /\ boot = b
    /\ news = n
    /\ thr = t
    /\ music = m

NoSite ==
    Site(NotFollowed, NotFollowed, NotFollowed, NotFollowed, NotFollowed,
         NotFollowed, NotFollowed)

\* A page with slides, indicator marks and a progress element.
Init ==
    /\ \E k \in Kinds, n \in 1..MaxSlides : car = Construct(k, n, FullDom)
    /\ Constructed
    /\ NoScroll
    /\ NoAuth
    /\ NoSite

\* Any page: one without slides, without indicators or without a progress
\* element too.
InitPage ==
    /\ \E k \in Kinds, n \in 0..MaxSlides, d \in Doms : car = Construct(k, n, d)
    /\ Constructed
    /\ NoScroll
    /\ NoAuth
    /\ NoSite

\* ------------------------------------------------------- method calls
GotoArgs == (0 - MaxOut)..(car.totalItems - 1 + MaxOut)

CallNextSlide == Method("nextSlide", NextSlide(Begin(car)), hover)

CallPrevSlide == Method("prevSlide", PrevSlide(Begin(car)), hover)

CallGoToSlide(index) == Method("goToSlide", GoToSlide(Begin(car), index), hover)

CallStartAutoPlay == Method("startAutoPlay", StartAutoPlay(Begin(car)), hover)

CallStopAutoPlay ==
    /\ car.kind = "story"
    /\ Method("stopAutoPlay", StoryStopAutoPlay(Begin(car)), hover)

CallToggleAutoPlay == Method("toggleAutoPlay", ToggleAutoPlay(Begin(car)), hover)

CallPauseAutoPlay ==
    /\ car.kind = "hero"
    /\ Method("pauseAutoPlay", PauseAutoPlay(Begin(car)), hover)

CallResumeAutoPlay ==
    /\ car.kind = "hero"
    /\ Method("resumeAutoPlay", ResumeAutoPlay(Begin(car)), hover)

CallResetAutoPlay ==
    /\ car.kind = "hero"
    /\ Method("resetAutoPlay", ResetAutoPlay(Begin(car)), hover)

\* ------------------------------------------------------------- events
ClickPrevBtn == Event("prevBtn", OnPrevBtn(Begin(car)), hover)

ClickNextBtn == Event("nextBtn", OnNextBtn(Begin(car)), hover)

ClickIndicator(index) == Event("indicator", OnIndicator(Begin(car), index), hover)

ClickItem(index) ==
    /\ car.kind = "hero"
    /\ Event("item", OnItem(Begin(car), index), hover)

\* click on #autoPlayToggle, which only StoryCarousel listens to
ClickAutoPlayToggle ==
    /\ car.kind = "story"
    /\ Event("autoPlayToggle", StoryToggleAutoPlay(Begin(car)), hover)

\* mouseenter on .advanced-carousel
MouseEnter ==
    /\ car.kind = "hero"
    /\ ~hover
    /\ Event("mouseenter", PauseAutoPlay(Begin(car)), TRUE)

\* mouseleave on .advanced-carousel
MouseLeave ==
    /\ car.kind = "hero"
    /\ hover
    /\ Event("mouseleave", ResumeAutoPlay(Begin(car)), FALSE)

KeyDown(key) == Event("keydown", OnKeyDown(Begin(car), key), hover)

\* touchend after a touchstart at startX: handleSwipe(startX, endX)
TouchEnd(startX, endX) ==
    Event("touchend",
          [HandleSwipe(Begin(car), startX, endX) EXCEPT !.calls.swipe = <<startX, endX>>],
          hover)

\* -------------------------------------------------------------- clock
\* One tick of time passes; a callback that is due runs first.
Tick ==
    /\ \A id \in DOMAIN car.timers : car.timers[id] > 0
    /\ car' = [car EXCEPT !.timers = [id \in DOMAIN @ |-> @[id] - 1],
                          !.calls = NoCalls]
    /\ last' = "tick"
    /\ idle' = Min(idle + 1, TicksPerInterval + 1)
    /\ UNCHANGED <<hover, hist, byHand, lin>>
    /\ UNCHANGED <<scrollVars, authVars, siteVars>>

\* The callback of interval timer id runs: () => this.nextSlide()
TimerFire(id) ==
    /\ car.timers[id] = 0
    /\ LET s1 == NextSlide(Begin(car))
       IN /\ car' = Renamed([s1 EXCEPT !.timers[id] = TicksPerInterval])
          /\ lin' = Advance(lin, s1)
    /\ last' = "timer"
    /\ UNCHANGED <<hover, hist, byHand, idle>>
    /\ UNCHANGED <<scrollVars, authVars, siteVars>>

Next ==
    \/ CallNextSlide
    \/ CallPrevSlide
    \/ \E index \in GotoArgs : CallGoToSlide(index)
    \/ CallStartAutoPlay
    \/ CallStopAutoPlay
    \/ CallToggleAutoPlay
    \/ CallPauseAutoPlay
    \/ CallResumeAutoPlay
    \/ CallResetAutoPlay
    \/ ClickPrevBtn
    \/ ClickNextBtn
    \/ \E index \in DOMAIN car.indicators : ClickIndicator(index)
    \/ \E index \in DOMAIN car.items : ClickItem(index)
    \/ ClickAutoPlayToggle
    \/ MouseEnter
    \/ MouseLeave
    \/ \E key \in Keys : KeyDown(key)
    \/ \E sw \in Swipes : TouchEnd(sw[1], sw[2])
    \/ Tick
    \/ \E id \in DOMAIN car.timers : TimerFire(id)

Spec == Init /\ [][Next]_vars

SpecPage == InitPage /\ [][Next]_vars

\* An AdvancedHeroCarousel whose auto-play the page has switched on with
\* toggleAutoPlay(), and the events of the user from then on.
InitHover ==
    /\ \E n \in 1..MaxSlides :
           car = Renamed(HeroToggleAutoPlay(Construct("hero", n, FullDom)))
    /\ Constructed
    /\ NoScroll
    /\ NoAuth
    /\ NoSite

NextHover ==
    \/ ClickPrevBtn
    \/ ClickNextBtn
    \/ \E index \in DOMAIN car.indicators : ClickIndicator(index)
    \/ \E index \in DOMAIN car.items : ClickItem(index)
    \/ MouseEnter
    \/ MouseLeave
    \/ \E key \in Keys : KeyDown(key)
    \/ \E sw \in Swipes : TouchEnd(sw[1], sw[2])
    \/ Tick
    \/ \E id \in DOMAIN car.timers : TimerFire(id)

SpecHover == InitHover /\ [][NextHover]_vars

\* ====================================================== scroll engines
\* window.innerHeight of the page that is scrolled.
ViewHeights == {10, 20}

\* Top and height, in the document, of the element that is watched.  It
\* stands in each of the four lists the reveal engines go through.
BoxTops == {0, 12}

BoxHeights == {10, 25}

\* The lists: .element-reveal, .char-reveal and .progressive-text
\* .text-line of ProgressiveScrollReveal, .scroll-reveal of ScrollReveal3D.
Lists == {"element-reveal", "char-reveal", "text-line", "scroll-reveal"}

ProgressiveLists == {"element-reveal", "char-reveal", "text-line"}

\* The threshold checkElements passes to isInViewport for a list, in
\* tenths: 0.1, 0.2, 0.1.
ThresholdTenths(l) == IF l = "char-reveal" THEN 2 ELSE 1

\* The functions that run on a scroll.
Engines ==
    {"updateScrollProgress", "checkElements", "updateAnimations",
     "checkElements3D", "updateStoryEffects"}

Max(a, b) == IF a > b THEN a ELSE b

\* The values pageYOffset takes in a window of height h.
ScrollOffsets(h) == (0 - MaxOver)..(ScrollHeight - h + MaxOver)

\* element.getBoundingClientRect() in the window w
Rect(b, w) ==
    [top |-> b.top - w.y, bottom |-> b.top + b.height - w.y, height |-> b.height]

\* ProgressiveScrollReveal.isInViewport(element, threshold): the ratio
\* visibleHeight / elementHeight is above tenths / 10.
ProgressiveIsInViewport(rect, windowHeight, tenths) ==
    LET visibleHeight == Min(rect.bottom, windowHeight) - Max(rect.top, 0)
    IN 10 * visibleHeight > tenths * rect.height

\* ScrollReveal3D.isInViewport(element): the box lies within the window
\* widened by windowHeight * 0.1 above and below.
ScrollReveal3DIsInViewport(rect, windowHeight) ==
    /\ 10 * rect.top >= 0 - windowHeight
    /\ 10 * rect.bottom <= 11 * windowHeight

\* classList.toggle(name, test) in the place of the conditional add.
ToggleClass(old, test) == test

\* if (test) element.classList.add(name)
AddClass(old, test) == old \/ test

\* The function ran once more in this animation frame.
Ran(p, f) == [p EXCEPT !.runs[f] = @ + 1]

\* ProgressiveScrollReveal.checkElements
ProgressiveCheckElements(p) ==
    LET rect == Rect(p.box, p.win)
    IN Ran([p EXCEPT !.marks =
                [l \in Lists |->
                    IF l \in ProgressiveLists
                      THEN AddClass(@[l],
                               ProgressiveIsInViewport(rect, p.win.h, ThresholdTenths(l)))
                      ELSE @[l]]],
           "checkElements")

\* ScrollReveal3D.checkElements, with revealElement
ScrollReveal3DCheckElements(p) ==
    Ran([p EXCEPT !.marks["scroll-reveal"] =
            AddClass(@, ScrollReveal3DIsInViewport(Rect(p.box, p.win), p.win.cached))],
        "checkElements3D")

\* Math.min(progress, 100) of the percentage num / den, den > 0.
MinHundred(num, den) == IF num > 100 * den THEN <<100, 1>> ELSE <<num, den>>

\* ProgressiveScrollReveal.updateScrollProgress: the width written to
\* #scrollProgress, as the fraction <<numerator, denominator>> of a
\* percentage.
UpdateScrollProgress(p) ==
    LET docHeight == ScrollHeight - p.win.h
        scrolled == p.win.y
    IN Ran([p EXCEPT !.bar = MinHundred(scrolled * 100, docHeight)],
           "updateScrollProgress")

\* Inline style of a .story-slide nobody wrote to.
PlainSlide == [by |-> "none", progress |-> <<0, 1>>, chars |-> FALSE]

\* SmoothScrollAnimations.updateAnimations on the #story section, with
\* animateSection: sectionProgress is P / Q clamped to [0, 1], and
\* slideProgress of slide i is (P / Q - 0.15 i) / 0.3 clamped to [0, 1],
\* kept as a fraction; opacity and transform are written from it when it
\* is above 0, and the .char elements of the slide are revealed when it is
\* above 0.3.
UpdateAnimations(p) ==
    LET Q == StoryHeight + p.win.h
        P == Max(0, Min(Q, p.win.y + p.win.h - StoryTop))
        num(i) == Max(0, Min(6 * Q, 20 * P - 3 * i * Q))
    IN Ran([p EXCEPT !.slides =
                [i \in DOMAIN @ |->
                    IF num(i) > 0
                      THEN [by |-> "SmoothScrollAnimations",
                            progress |-> <<num(i), 6 * Q>>,
                            chars |-> AddClass(@[i].chars, 10 * num(i) > 3 * 6 * Q)]
                      ELSE @[i]]],
           "updateAnimations")

\* StoryScrollEffects.updateStoryEffects: scrollProgress is
\* 1 - rect.top / windowHeight = S / h, and slideProgress of slide i is
\* S / h - 0.1 i; transform and opacity are written from it when
\* 0 < scrollProgress < 1.5 and slideProgress > 0.
UpdateStoryEffects(p) ==
    LET h == p.win.h
        S == h - (StoryTop - p.win.y)
        num(i) == 10 * S - i * h
    IN Ran([p EXCEPT !.slides =
                [i \in DOMAIN @ |->
                    IF S > 0 /\ 2 * S < 3 * h /\ num(i) > 0
                      THEN [@[i] EXCEPT !.by = "StoryScrollEffects",
                                        !.progress = <<num(i), 10 * h>>]
                      ELSE @[i]]],
           "updateStoryEffects")

\* The scroll listener of the throttle: requestAnimationFrame when no
\* callback is pending.
RequestFrame(p) == [p EXCEPT !.ticking = TRUE]

\* The scroll listeners, in the order they were added: the one of each
\* engine, then the throttle.
OnScroll(p) ==
    RequestFrame(
        UpdateStoryEffects(
            ScrollReveal3DCheckElements(
                UpdateAnimations(
                    ProgressiveCheckElements(UpdateScrollProgress(p))))))

\* The resize listeners: ProgressiveScrollReveal checks its elements,
\* ScrollReveal3D stores the new height.
OnResize(p) ==
    [ProgressiveCheckElements(p) EXCEPT !.win.cached = p.win.h]

\* updateScrollAnimations, the requestAnimationFrame callback
UpdateScrollAnimations(p) ==
    [UpdateStoryEffects(
         ScrollReveal3DCheckElements(
             UpdateAnimations(
                 ProgressiveCheckElements(UpdateScrollProgress(p)))))
     EXCEPT !.ticking = FALSE]

NoRuns == [f \in Engines |-> 0]

\* The page before the engines are constructed.
Loaded(b, h) ==
    [win |-> [y |-> 0, h |-> h, cached |-> h],
     box |-> b,
     marks |-> [l \in Lists |-> FALSE],
     bar |-> <<0, 1>>,
     slides |-> [i \in 0..(StorySlides - 1) |-> PlainSlide],
     ticking |-> FALSE,
     burst |-> 0,
     runs |-> NoRuns]

\* The constructors: ProgressiveScrollReveal.init() updates the bar and
\* checks its elements, ScrollReveal3D.init() checks its own.
ScrollConstruct(b, h) ==
    [ScrollReveal3DCheckElements(
         ProgressiveCheckElements(UpdateScrollProgress(Loaded(b, h))))
     EXCEPT !.runs = NoRuns]

\* One step of the scroll engines that leaves the page as p1.
ScrollStep(name, p1) ==
    /\ page' = p1
    /\ seen' = [l \in Lists |-> seen[l] \/ p1.marks[l]]
    /\ step' = name
    /\ UNCHANGED <<carVars, authVars, siteVars>>

InitScroll ==
    /\ car = Construct("story", StorySlides, FullDom)
    /\ Constructed
    /\ \E top \in BoxTops, height \in BoxHeights, h \in ViewHeights :
           page = ScrollConstruct([top |-> top, height |-> height], h)
    /\ seen = page.marks
    /\ step = "init"
    /\ NoAuth
    /\ NoSite

\* A scroll event at offset y.
Scroll(y) ==
    /\ page.burst < MaxBurst
    /\ y # page.win.y
    /\ ScrollStep("scroll", OnScroll([page EXCEPT !.win.y = y, !.burst = @ + 1]))

\* A resize event that leaves the window h high.
Resize(h) ==
    /\ h # page.win.h
    /\ page.win.y \in ScrollOffsets(h)
    /\ page.runs["checkElements"] <= MaxBurst
    /\ ScrollStep("resize", OnResize([page EXCEPT !.win.h = h]))

\* The animation frame callbacks run.
AnimationFrame ==
    /\ page.ticking
    /\ ScrollStep("frame", UpdateScrollAnimations(page))

\* The frame is painted and the next one begins.
NextFrame ==
    /\ ~page.ticking
    /\ page.runs # NoRuns
    /\ ScrollStep("paint", [page EXCEPT !.runs = NoRuns, !.burst = 0])

NextScroll ==
    \/ \E y \in ScrollOffsets(page.win.h) : Scroll(y)
    \/ \E h \in ViewHeights : Resize(h)
    \/ AnimationFrame
    \/ NextFrame

SpecScroll == InitScroll /\ [][NextScroll]_vars

\* ==================================================== identity service
\* firebaseAuth of js/firebase-auth.js, and handleLogout.
Ops == {"register", "login", "loginWithGoogle", "resetPassword", "logout"}

\* The codes the switch of an operation's catch block has a case for.
Table(op) ==
    CASE op = "register" ->
             {"auth/email-already-in-use", "auth/invalid-email",
              "auth/weak-password", "auth/operation-not-allowed"}
      [] op = "login" ->
             {"auth/user-not-found", "auth/wrong-password", "auth/invalid-email",
              "auth/user-disabled", "auth/too-many-requests"}
      [] op = "loginWithGoogle" ->
             {"auth/popup-closed-by-user", "auth/popup-blocked",
              "auth/account-exists-with-different-credential"}
      [] op = "resetPassword" -> {"auth/user-not-found", "auth/invalid-email"}
      [] OTHER -> {}

\* A code of the provider that no switch has a case for.
Unrecognized == "auth/network-request-failed"

\* The localized strings, by what they say: the one a case of the switch
\* assigns, the one message is initialised with, the one of the success
\* result, and the one register throws for a taken username.
TableMessage(op, code) == <<op, code>>

Generic(op) == <<op, "generic">>

Succeeded(op) == <<op, "success">>

UsernameTaken == <<"register", "username exists">>

\* The English text a provider error carries for its code.
RawText(code) == <<"raw", code>>

\* The errors a provider call of op rejects with: a code, in the table or
\* not, and a message that is the provider's text or is empty.
ProviderErrors(op) ==
    [code : Table(op) \cup {Unrecognized},
     message : {<<>>}] \cup
    {[code |-> c, message |-> RawText(c)] : c \in Table(op) \cup {Unrecognized}}

\* The rejection of a document-store call (getDocs, setDoc).
StoreError == [code |-> "unavailable", message |-> RawText("unavailable")]

\* The awaited calls of an operation, in their order.  checkUsernameExists
\* and saveUserData are calls of the document store, the others of the
\* provider.
Awaits(op) ==
    CASE op = "register" ->
             <<"checkUsernameExists", "createUserWithEmailAndPassword",
               "updateProfile", "saveUserData">>
      [] op = "login" -> <<"signInWithEmailAndPassword", "saveUserData">>
      [] op = "loginWithGoogle" -> <<"signInWithPopup", "saveUserData">>
      [] op = "resetPassword" -> <<"sendPasswordResetEmail">>
      [] OTHER -> <<"signOut">>

StoreCalls == {"checkUsernameExists", "saveUserData"}

\* No operation has been called.
NoCall ==
    [op |-> "none", at |-> 0, failed |-> {}, code |-> "none", result |-> <<>>]

\* firebaseAuth[op](...) was called and is suspended at its first await.
Invoke(op) == [NoCall EXCEPT !.op = op, !.at = 1]

Pending(c) == c.at \in 1..Len(Awaits(c.op))

Settled(c) == c.op # "none" /\ ~Pending(c)

Awaited(c) == Awaits(c.op)[c.at]

\* The message of a catch block: the case of the switch, or the initial
\* value of message; register returns error.message || message.
FailureMessage(op, error) ==
    LET message == IF error.code \in Table(op)
                     THEN TableMessage(op, error.code)
                     ELSE Generic(op)
    IN IF op = "register" /\ error.message # <<>> THEN error.message ELSE message

\* The catch block of an operation.
Catch(c, error) ==
    [c EXCEPT !.at = 0,
              !.code = error.code,
              !.result = [success |-> FALSE,
                          message |-> FailureMessage(c.op, error)]]

\* The awaited call returned: the operation goes on to its next await, or
\* returns its success result; the user is part of it except for
\* resetPassword and logout.
Proceed(c) ==
    IF c.at < Len(Awaits(c.op)) THEN [c EXCEPT !.at = @ + 1]
    ELSE [c EXCEPT !.at = 0,
                   !.result =
                       IF c.op \in {"resetPassword", "logout"}
                         THEN [success |-> TRUE, message |-> Succeeded(c.op)]
                         ELSE [success |-> TRUE, message |-> Succeeded(c.op),
                               user |-> "user"]]

\* The awaited call resolved.  checkUsernameExists resolved with found:
\* register throws new Error(...) when the name is taken.
Resolved(c, found) ==
    IF Awaited(c) = "checkUsernameExists" /\ found
      THEN Catch(c, [code |-> "none", message |-> UsernameTaken])
      ELSE Proceed(c)

\* The awaited call rejected.  checkUsernameExists and saveUserData catch
\* the error of the document store themselves, log it and return, the
\* first with false.
Rejected(c, error) ==
    IF Awaited(c) \in StoreCalls
      THEN Proceed([c EXCEPT !.failed = @ \cup {Awaited(c)}])
      ELSE Catch([c EXCEPT !.failed = @ \cup {Awaited(c)}], error)

\* The errors the call awaited by c rejects with.
Rejections(c) ==
    IF Awaited(c) \in StoreCalls THEN {StoreError} ELSE ProviderErrors(c.op)

\* ------------------------------------------------------- handleLogout
\* No logout has been asked for.  dialog is the Swal dialog on screen,
\* choice what the user answered to the question, logout the call of
\* firebaseAuth.logout() made by handleLogout.
NoFlow ==
    [dialog |-> "none", choice |-> "none", logout |-> NoCall, menu |-> TRUE]

\* handleLogout(): the question is shown and the user menu removed.
AskLogout == [NoFlow EXCEPT !.dialog = "question", !.menu = FALSE]

\* The test of result.isConfirmed left out.
IsConfirmedAlways(choice) == TRUE

\* if (result.isConfirmed)
IsConfirmed(choice) == choice = "confirmed"

\* The .then callback of the question: the dialog has closed with the
\* user's choice.
Answered(f, choice) ==
    LET closed == [f EXCEPT !.dialog = "none", !.choice = choice]
    IN IF IsConfirmed(choice)
         THEN [closed EXCEPT !.logout = Invoke("logout")]
         ELSE closed

\* After await firebaseAuth.logout(): the success or the error dialog.
Report(f) ==
    [f EXCEPT !.dialog = IF f.logout.result.success THEN "success" ELSE "error"]

AuthStep(c1, f1) ==
    /\ call' = c1
    /\ flow' = f1
    /\ UNCHANGED <<carVars, scrollVars, siteVars>>

InitAuth ==
    /\ car = Construct("hero", 1, FullDom)
    /\ Constructed
    /\ NoScroll
    /\ NoSite
    /\ call = NoCall
    /\ flow = NoFlow

\* The page calls an operation of window.firebaseAuth.
CallOp(op) ==
    /\ ~Pending(call)
    /\ AuthStep(Invoke(op), flow)

\* The call the operation awaits resolves.
AwaitResolves(found) ==
    /\ Pending(call)
    /\ found => Awaited(call) = "checkUsernameExists"
    /\ AuthStep(Resolved(call, found), flow)

\* The call the operation awaits rejects.
AwaitRejects(error) ==
    /\ Pending(call)
    /\ error \in Rejections(call)
    /\ AuthStep(Rejected(call, error), flow)

\* A click on the logout item of the user menu.
HandleLogout ==
    /\ flow.dialog # "question"
    /\ ~Pending(flow.logout)
    /\ AuthStep(call, AskLogout)

\* The user answers the question, or dismisses it.
Answer(choice) ==
    /\ flow.dialog = "question"
    /\ AuthStep(call, Answered(flow, choice))

\* signOut(auth), awaited by the logout of handleLogout, resolves.
SignOutResolves ==
    /\ Pending(flow.logout)
    /\ AuthStep(call, [flow EXCEPT !.logout = Resolved(@, FALSE)])

\* signOut(auth), awaited by the logout of handleLogout, rejects.
SignOutRejects(error) ==
    /\ Pending(flow.logout)
    /\ error \in Rejections(flow.logout)
    /\ AuthStep(call, [flow EXCEPT !.logout = Rejected(@, error)])

\* handleLogout resumes after its await.
ShowOutcome ==
    /\ Settled(flow.logout)
    /\ flow.dialog = "none"
    /\ AuthStep(call, Report(flow))

AllErrors == UNION {ProviderErrors(op) : op \in Ops} \cup {StoreError}

NextAuth ==
    \/ \E op \in Ops : CallOp(op)
    \/ \E found \in BOOLEAN : AwaitResolves(found)
    \/ \E error \in AllErrors : AwaitRejects(error)
    \/ HandleLogout
    \/ \E choice \in {"confirmed", "cancelled"} : Answer(choice)
    \/ SignOutResolves
    \/ \E error \in AllErrors : SignOutRejects(error)
    \/ ShowOutcome

SpecAuth == InitAuth /\ [][NextAuth]_vars

\* ==================================================== API client, sink
\* Requests of GameAPI.login that may wait for their response at once.
MaxRequests == 2
\* Calls of the global trackEvent that are followed.
MaxEvents == 2

\* localStorage.getItem of a key that is not there, and this.token = null.
Absent == "(absent)"

\* The access tokens: the empty string and two tokens of the backend.
Tokens == {"", "jwt-a", "jwt-b"}

\* !!value of a token or of null
Truthy(value) == value \notin {Absent, ""}

\* What the last call of a method of GameAPI was, and the token and the
\* stored value before it.
Did(name, a) == [op |-> name, before |-> <<a.token, a.stored>>]

\* GameAPI constructor, with stored under 'access_token' in localStorage.
NewGameAPI(stored) ==
    [token |-> stored, stored |-> stored, pending |-> 0,
     did |-> [op |-> "constructor", before |-> <<stored, stored>>]]

\* setToken without the write to localStorage.
SetTokenInMemory(a, token) == [a EXCEPT !.token = token]

\* GameAPI.setToken(token)
SetToken(a, token) == [a EXCEPT !.token = token, !.stored = token]

\* GameAPI.clearToken()
ClearToken(a) == [a EXCEPT !.token = Absent, !.stored = Absent]

\* The responses of POST /login: a failure, for which request() throws,
\* and a body with or without an access_token.
Responses ==
    {[ok |-> FALSE, access_token |-> Absent]} \cup
    [ok : {TRUE}, access_token : Tokens \cup {Absent}]

\* GameAPI.login after await this.request('/login', ...) with response r.
Login(a, r) ==
    IF r.ok /\ Truthy(r.access_token) THEN SetToken(a, r.access_token) ELSE a

\* GameAPI.isAuthenticated()
IsAuthenticated(a) == Truthy(a.token)

\* The ways the page loads js/api-client.js: as a classic script, where a
\* function declared at the top is a property of window, or as a module,
\* where it is local to the file.
LoadModes == {"classic", "module"}

\* What the name trackEvent refers to inside the file when its statements
\* have run: the declaration at the end of the file is bound first, and
\* window.trackEvent = async function ... replaces it where the two are
\* the same binding.
BoundTrackEvent(mode) ==
    LET declared == "function trackEvent"
        assigned == "window.trackEvent"
    IN IF mode = "classic" THEN assigned ELSE declared

\* The calls of the global trackEvent that are followed: the name, the
\* category and the properties a component passes.
Emissions ==
    {[name |-> "story_slide_view", category |-> "engagement", properties |-> "slide"],
     [name |-> "payment_attempt", category |-> "conversion", properties |-> "package"]}

\* The page after the file ran and GameAnalytics was constructed.
NewSink(mode) ==
    [mode |-> mode, trackEvent |-> BoundTrackEvent(mode),
     events |-> <<>>, requests |-> <<>>, emitted |-> <<>>]

\* GameAnalytics.trackEvent(eventName, category, properties)
AnalyticsTrackEvent(s, eventName, category, properties) ==
    [s EXCEPT !.events =
        Append(@, [event |-> eventName, category |-> category,
                   properties |-> properties])]

\* GameAPI.trackEvent(eventType, eventData): the body of POST /analytics,
\* with the Authorization header when there is a token.
ApiTrackEvent(s, a, eventType, eventData) ==
    [s EXCEPT !.requests =
        Append(@, [event_type |-> eventType, event_data |-> eventData,
                   authorized |-> Truthy(a.token)])]

\* trackEvent(eventName, category, properties) as a component calls it:
\* the function at the end of the file passes its three arguments to
\* window.analytics, window.trackEvent takes the first two as eventType
\* and eventData.
GlobalTrackEvent(s, a, e) ==
    LET called == [s EXCEPT !.emitted = Append(@, e)]
    IN IF s.trackEvent = "function trackEvent"
         THEN AnalyticsTrackEvent(called, e.name, e.category, e.properties)
         ELSE ApiTrackEvent(called, a, e.name, e.category)

ApiStep(a1, s1) ==
    /\ api' = a1
    /\ sink' = s1
    /\ UNCHANGED <<carVars, scrollVars, authVars, usr, boot, news, thr, music>>

\* The rest of the page, left aside.
Elsewhere ==
    /\ car = Construct("hero", 1, FullDom)
    /\ Constructed
    /\ NoScroll
    /\ NoAuth

InitApi ==
    /\ Elsewhere
    /\ \E stored \in Tokens \cup {Absent}, mode \in LoadModes :
           Site(NewGameAPI(stored), NewSink(mode), NotFollowed, NotFollowed,
                NotFollowed, NotFollowed, NotFollowed)

\* gameAPI.setToken(token)
CallSetToken(token) ==
    ApiStep([SetToken(api, token) EXCEPT !.did = Did("setToken", api)], sink)

\* gameAPI.clearToken()
CallClearToken ==
    ApiStep([ClearToken(api) EXCEPT !.did = Did("clearToken", api)], sink)

\* gameAPI.login(username, password) sends its request.
LoginRequest ==
    /\ api.pending < MaxRequests
    /\ ApiStep([api EXCEPT !.pending = @ + 1, !.did = Did("request", api)], sink)

\* The response of a login arrives.
LoginResponse(r) ==
    /\ api.pending > 0
    /\ ApiStep([Login(api, r) EXCEPT
                    !.pending = @ - 1,
                    !.did = Did(IF r.ok THEN "login" ELSE "login failed", api)],
               sink)

\* gameAPI.logout(): the token is cleared and the page is left for '/',
\* where the file runs again.
CallLogout ==
    ApiStep([NewGameAPI(ClearToken(api).stored) EXCEPT !.did = Did("logout", api)],
            NewSink(sink.mode))

\* A component calls trackEvent.
Emit(e) ==
    /\ Len(sink.emitted) < MaxEvents
    /\ ApiStep(api, GlobalTrackEvent(sink, api, e))

NextApi ==
    \/ \E token \in Tokens : CallSetToken(token)
    \/ CallClearToken
    \/ LoginRequest
    \/ \E r \in Responses : LoginResponse(r)
    \/ CallLogout
    \/ \E e \in Emissions : Emit(e)

SpecApi == InitApi /\ [][NextApi]_vars

\* ======================================================= users collection
\* The latest reading of new Date() that is followed.
MaxClock == 1

\* The calls of firebaseAuth.register that may be in progress at once.
Registrations == {1, 2}

Emails == {"a@x", "b@x"}
Usernames == {"neo", "trinity"}

\* user.uid of the account of an email address.
UidOf(email) == IF email = "a@x" THEN "uid-a" ELSE "uid-b"

\* checkUsernameExists once getDocs has resolved: !querySnapshot.empty
\* for where('username', '==', username).
CheckUsernameExists(docs, username) ==
    \E uid \in DOMAIN docs : docs[uid].username = username

\* additionalData.field || fallback
OrElse(additionalData, field, fallback) ==
    IF field \in DOMAIN additionalData /\ additionalData[field] # ""
      THEN additionalData[field]
      ELSE fallback

\* userData of saveUserData(user, additionalData) at time now; displayName
\* and fullname are not followed.
UserData(email, additionalData, now) ==
    [uid |-> UidOf(email), email |-> email,
     username |-> OrElse(additionalData, "username", ""),
     createdAt |-> now, lastLogin |-> now,
     provider |-> OrElse(additionalData, "provider", "email")]

\* setDoc(userRef, userData, { merge: true })
SetDocMerge(docs, uid, userData) ==
    LET merged ==
            IF uid \in DOMAIN docs
              THEN [f \in DOMAIN docs[uid] \cup DOMAIN userData |->
                       IF f \in DOMAIN userData THEN userData[f] ELSE docs[uid][f]]
              ELSE userData
    IN [u \in DOMAIN docs \cup {uid} |-> IF u = uid THEN merged ELSE docs[u]]

\* saveUserData(user, additionalData) when setDoc resolves; when setDoc
\* rejects the error is logged and the collection is as it was.
SaveUserData(u, email, additionalData) ==
    [u EXCEPT !.docs = SetDocMerge(@, UidOf(email),
                                   UserData(email, additionalData, u.clock))]

\* A call of register that has not been made.
NoRegistration ==
    [pc |-> "idle", email |-> "", username |-> "", success |-> FALSE,
     saved |-> FALSE]

\* register returns { success: ... }.
Returns(u, p, success) ==
    [u EXCEPT !.calls[p].pc = "returned",
              !.calls[p].success = success,
              !.did = <<"register", p>>]

NoUsers ==
    [docs |-> <<>>, accounts |-> {}, clock |-> 0,
     calls |-> [p \in Registrations |-> NoRegistration],
     registered |-> <<>>, did |-> <<"none", 0>>]

UsersStep(u1) ==
    /\ usr' = u1
    /\ UNCHANGED <<carVars, scrollVars, authVars, api, sink, boot, news, thr, music>>

InitUsers ==
    /\ Elsewhere
    /\ Site(NotFollowed, NotFollowed, NoUsers, NotFollowed, NotFollowed,
            NotFollowed, NotFollowed)

\* firebaseAuth.register(email, password, fullname, username) up to
\* await checkUsernameExists(username).
Register(p, email, username) ==
    /\ usr.calls[p].pc \in {"idle", "returned"}
    /\ \A q \in Registrations \ {p} :
           usr.calls[q].pc \in {"idle", "returned"} \/ usr.calls[q].email # email
    /\ UsersStep([usr EXCEPT
           !.calls[p] = [pc |-> "getDocs", email |-> email,
                         username |-> username, success |-> FALSE,
                         saved |-> FALSE],
           !.did = <<"called", p>>])

\* getDocs resolves: the username is taken and register returns its
\* failure, or the account is asked for.
GetDocsResolves(p) ==
    /\ usr.calls[p].pc = "getDocs"
    /\ UsersStep(IF CheckUsernameExists(usr.docs, usr.calls[p].username)
                   THEN Returns(usr, p, FALSE)
                   ELSE [usr EXCEPT !.calls[p].pc = "createUser",
                                    !.did = <<"checked", p>>])

\* getDocs rejects: checkUsernameExists returns false.
GetDocsRejects(p) ==
    /\ usr.calls[p].pc = "getDocs"
    /\ UsersStep([usr EXCEPT !.calls[p].pc = "createUser",
                             !.did = <<"checked", p>>])

\* createUserWithEmailAndPassword resolves; an email address has one
\* account.
CreateUserResolves(p) ==
    /\ usr.calls[p].pc = "createUser"
    /\ usr.calls[p].email \notin usr.accounts
    /\ UsersStep([usr EXCEPT !.accounts = @ \cup {usr.calls[p].email},
                             !.calls[p].pc = "updateProfile",
                             !.did = <<"created", p>>])

\* createUserWithEmailAndPassword rejects.
CreateUserRejects(p) ==
    /\ usr.calls[p].pc = "createUser"
    /\ UsersStep(Returns(usr, p, FALSE))

\* updateProfile resolves.
UpdateProfileResolves(p) ==
    /\ usr.calls[p].pc = "updateProfile"
    /\ UsersStep([usr EXCEPT !.calls[p].pc = "setDoc",
                             !.did = <<"updated", p>>])

\* updateProfile rejects.
UpdateProfileRejects(p) ==
    /\ usr.calls[p].pc = "updateProfile"
    /\ UsersStep(Returns(usr, p, FALSE))

\* setDoc of saveUserData resolves and register returns success.
SetDocResolves(p) ==
    /\ usr.calls[p].pc = "setDoc"
    /\ LET c == usr.calls[p]
           saved == SaveUserData(usr, c.email,
                                 [username |-> c.username, provider |-> "email"])
           uid == UidOf(c.email)
           noted == [saved EXCEPT
                        !.calls[p].saved = TRUE,
                        !.registered =
                            [u \in DOMAIN @ \cup {uid} |->
                                IF u = uid
                                  THEN [username |-> c.username,
                                        createdAt |-> usr.clock]
                                  ELSE @[u]]]
       IN UsersStep(Returns(noted, p, TRUE))

\* setDoc of saveUserData rejects: the error is logged inside saveUserData
\* and register goes on to return success.
SetDocRejects(p) ==
    /\ usr.calls[p].pc = "setDoc"
    /\ UsersStep(Returns(usr, p, TRUE))

\* firebaseAuth.login(email, password) of an account, when
\* signInWithEmailAndPassword and setDoc resolve: saveUserData(user,
\* { lastLogin }).
UserLogin(email) ==
    /\ email \in usr.accounts
    /\ UsersStep([SaveUserData(usr, email, <<>>) EXCEPT !.did = <<"login", 0>>])

\* firebaseAuth.loginWithGoogle() with the Google account of an email
\* address, when signInWithPopup and setDoc resolve: saveUserData(user,
\* { provider: 'google', lastLogin }).
LoginWithGoogle(email) ==
    /\ email \in usr.accounts
    /\ UsersStep([SaveUserData(usr, email, [provider |-> "google"]) EXCEPT
                     !.did = <<"loginWithGoogle", 0>>])

\* new Date() moves on.
TimePasses ==
    /\ usr.clock < MaxClock
    /\ UsersStep([usr EXCEPT !.clock = @ + 1, !.did = <<"time", 0>>])

\* Calls of register whose awaits all resolve.
NextRace ==
    \/ \E p \in Registrations, email \in Emails, username \in Usernames :
           Register(p, email, username)
    \/ \E p \in Registrations : GetDocsResolves(p)
    \/ \E p \in Registrations : CreateUserResolves(p)
    \/ \E p \in Registrations : UpdateProfileResolves(p)
    \/ \E p \in Registrations : SetDocResolves(p)

SpecRace == InitUsers /\ [][NextRace]_vars

NextUsers ==
    \/ NextRace
    \/ \E p \in Registrations : GetDocsRejects(p)
    \/ \E p \in Registrations : CreateUserRejects(p)
    \/ \E p \in Registrations : UpdateProfileRejects(p)
    \/ \E p \in Registrations : SetDocRejects(p)
    \/ \E email \in Emails : UserLogin(email)
    \/ \E email \in Emails : LoginWithGoogle(email)
    \/ TimePasses

SpecUsers == InitUsers /\ [][NextUsers]_vars

\* ============================================================== start-up
\* The time after the file ran that is followed, in steps of BootStepMs.
MaxBootSteps == 40

BootStepMs == 100
InitDelayMs == 100
ForceDelayMs == 500
RetryDelayMs == 3000

\* setTimeout(fn, ms) at the time of b: timers are kept in the order they
\* were set.
SetTimeout(b, fn, ms) ==
    [b EXCEPT !.timers = Append(@, [fn |-> fn, due |-> b.now + (ms \div BootStepMs)])]

\* The timer that fires next: the earliest due, the earliest set among
\* those.
NextDue(b) ==
    CHOOSE i \in 1..Len(b.timers) :
        \A j \in 1..Len(b.timers) :
            \/ b.timers[i].due < b.timers[j].due
            \/ (b.timers[i].due = b.timers[j].due /\ i <= j)

Without(timers, i) ==
    [j \in 1..(Len(timers) - 1) |-> IF j < i THEN timers[j] ELSE timers[j + 1]]

\* window.advancedHeroCarousel = new AdvancedHeroCarousel()
NewAdvancedHeroCarousel(b) ==
    [b EXCEPT !.advancedHeroCarousel = TRUE, !.instances = @ + 1]

\* forceInitCarousel()
ForceInitCarousel(b) ==
    IF ~b.advancedHeroCarousel THEN SetTimeout(b, "force", ForceDelayMs) ELSE b

\* The callback of a timer.
Callback(b, fn) ==
    CASE fn = "init" -> NewAdvancedHeroCarousel(b)
      [] fn = "force" -> NewAdvancedHeroCarousel(b)
      [] fn = "retry" ->
            IF ~b.advancedHeroCarousel THEN ForceInitCarousel(b) ELSE b

\* The page when the file has run: the listener of DOMContentLoaded is
\* added and the retry is set.
Booted ==
    SetTimeout([now |-> 0, loaded |-> FALSE, timers |-> <<>>,
                advancedHeroCarousel |-> FALSE, instances |-> 0],
               "retry", RetryDelayMs)

BootStep(b1) ==
    /\ boot' = b1
    /\ UNCHANGED <<carVars, scrollVars, authVars, api, sink, usr, news, thr, music>>

InitBoot ==
    /\ Elsewhere
    /\ Site(NotFollowed, NotFollowed, NotFollowed, Booted, NotFollowed,
            NotFollowed, NotFollowed)

\* DOMContentLoaded: the components are constructed and the construction
\* of the hero carousel is set for InitDelayMs later.
DomContentLoaded ==
    /\ ~boot.loaded
    /\ BootStep(SetTimeout([boot EXCEPT !.loaded = TRUE], "init", InitDelayMs))

\* A timer that is due fires.
BootTimerFires ==
    /\ boot.timers # <<>>
    /\ LET i == NextDue(boot)
       IN /\ boot.timers[i].due <= boot.now
          /\ BootStep(Callback([boot EXCEPT !.timers = Without(@, i)],
                               boot.timers[i].fn))

\* BootStepMs pass, when no timer is due.
BootTimePasses ==
    /\ boot.now < MaxBootSteps
    /\ \A i \in 1..Len(boot.timers) : boot.timers[i].due > boot.now
    /\ BootStep([boot EXCEPT !.now = @ + 1])

NextBoot == DomContentLoaded \/ BootTimerFires \/ BootTimePasses

SpecBoot == InitBoot /\ [][NextBoot]_vars

\* ============================================================ newsletter
\* The submit listeners the form may carry.
MaxListeners == 3
\* The runs of handleSubmit and the timers of showSuccessMessage that may
\* be waiting at once.
MaxWaiting == 3

\* new Newsletter() on a page with the modal and the form: the form shows
\* its inputs and setupEventListeners has added one submit listener.
NewNewsletter ==
    [display |-> "none", content |-> "inputs", listeners |-> 1,
     awaiting |-> 0, timers |-> 0, runs |-> 0, did |-> "constructor"]

\* Newsletter.openModal()
OpenModal(n) == [n EXCEPT !.display = "block"]

\* Newsletter.closeModal()
CloseModal(n) == [n EXCEPT !.display = "none"]

\* Newsletter.handleSubmit() up to its await.
HandleSubmit(n) == [n EXCEPT !.awaiting = @ + 1, !.runs = @ + 1]

RECURSIVE RunListeners(_, _)
\* The k submit listeners of the form run one after the other:
\* e.preventDefault(); this.handleSubmit().
RunListeners(k, n) ==
    IF k = 0 THEN n ELSE RunListeners(k - 1, HandleSubmit(n))

\* Newsletter.showSuccessMessage()
ShowSuccessMessage(n) == [n EXCEPT !.content = "success", !.timers = @ + 1]

\* Newsletter.resetForm()
ResetForm(n) == [n EXCEPT !.content = "inputs", !.listeners = @ + 1]

NewsStep(n1) ==
    /\ news' = n1
    /\ UNCHANGED <<carVars, scrollVars, authVars, api, sink, usr, boot, thr, music>>

InitNews ==
    /\ Elsewhere
    /\ Site(NotFollowed, NotFollowed, NotFollowed, NotFollowed, NewNewsletter,
            NotFollowed, NotFollowed)

\* A click on 'Đăng Ký Nhận Tin'.
ClickOpen ==
    NewsStep([OpenModal(news) EXCEPT !.did = "open"])

\* A click on the close button or outside the modal.
ClickClose ==
    NewsStep([CloseModal(news) EXCEPT !.did = "close"])

\* The form is submitted: every submit listener of the form runs.
Submit ==
    /\ news.content = "inputs"
    /\ news.awaiting + news.listeners <= MaxWaiting
    /\ NewsStep([RunListeners(news.listeners, [news EXCEPT !.runs = 0])
                     EXCEPT !.did = "submit"])

\* The simulated request of a run of handleSubmit resolves.
RequestResolves ==
    /\ news.awaiting > 0
    /\ news.timers < MaxWaiting
    /\ NewsStep([ShowSuccessMessage([news EXCEPT !.awaiting = @ - 1])
                     EXCEPT !.did = "success"])

\* The timer of showSuccessMessage fires.
ResetTimerFires ==
    /\ news.timers > 0
    /\ news.listeners < MaxListeners
    /\ NewsStep([ResetForm(CloseModal([news EXCEPT !.timers = @ - 1]))
                     EXCEPT !.did = "reset"])

\* newsletter.resetForm() is called.
CallResetForm ==
    /\ news.listeners < MaxListeners
    /\ NewsStep([ResetForm(news) EXCEPT !.did = "resetForm"])

NextNews ==
    \/ ClickOpen
    \/ ClickClose
    \/ Submit
    \/ RequestResolves
    \/ ResetTimerFires
    \/ CallResetForm

SpecNews == InitNews /\ [][NextNews]_vars

\* ======================================================= scroll tracking
ThrottleStepMs == 250
ThrottleWaitMs == 1000

\* wait of throttle(trackScroll, 1000) in steps of ThrottleStepMs.
WaitSteps == ThrottleWaitMs \div ThrottleStepMs

\* let timeout; of throttle before setTimeout, and after clearTimeout.
NoTimeout == 0 - 1

ScrollPercentages == {25, 50, 75, 100}

\* scrollPercent of the positions the page is scrolled to.
ScrollPercents == {0, 30, 75, 100}

\* setupScrollTracking(): nothing tracked, no timeout; no scroll event and
\* no run of trackScroll within the last ThrottleWaitMs.
NewScrollTracking ==
    [timeout |-> NoTimeout, percent |-> 0, tracked |-> {},
     gap |-> WaitSteps, unserved |-> 0, sincePrev |-> WaitSteps,
     between |-> WaitSteps, did |-> "constructor"]

\* trackScroll()
TrackScroll(t) ==
    [t EXCEPT !.tracked = @ \cup {p \in ScrollPercentages : t.percent >= p}]

\* executedFunction of throttle(func, wait): the timeout is cleared and set
\* anew.
ExecutedFunction(t) == [t EXCEPT !.timeout = WaitSteps]

\* later of throttle(func, wait)
Later(t) == TrackScroll([t EXCEPT !.timeout = NoTimeout])

ThrottleStep(t1) ==
    /\ thr' = t1
    /\ UNCHANGED <<carVars, scrollVars, authVars, api, sink, usr, boot, news, music>>

InitThrottle ==
    /\ Elsewhere
    /\ Site(NotFollowed, NotFollowed, NotFollowed, NotFollowed, NotFollowed,
            NewScrollTracking, NotFollowed)

\* A scroll event with the page at percent. It continues the run of
\* events when the one before came less than ThrottleWaitMs ago.
ScrollEvent(percent) ==
    ThrottleStep([ExecutedFunction(thr) EXCEPT
        !.percent = percent,
        !.unserved = IF thr.gap < WaitSteps THEN @ ELSE 0,
        !.gap = 0,
        !.did = IF thr.gap < WaitSteps THEN "scroll" ELSE "first scroll"])

\* The timeout of throttle fires.
ThrottleTimerFires ==
    /\ thr.timeout = 0
    /\ ThrottleStep([Later(thr) EXCEPT
           !.unserved = 0,
           !.between = thr.sincePrev,
           !.sincePrev = 0,
           !.did = "trackScroll"])

\* ThrottleStepMs pass, when the timeout is not due.
ThrottleTimePasses ==
    /\ thr.timeout # 0
    /\ ThrottleStep([thr EXCEPT
           !.timeout = IF @ = NoTimeout THEN @ ELSE @ - 1,
           !.gap = Min(@ + 1, WaitSteps),
           !.unserved = Min(@ + 1, WaitSteps + 1),
           !.sincePrev = Min(@ + 1, WaitSteps),
           !.did = "time"])

NextThrottle ==
    \/ \E percent \in ScrollPercents : ScrollEvent(percent)
    \/ ThrottleTimerFires
    \/ ThrottleTimePasses

SpecThrottle == InitThrottle /\ [][NextThrottle]_vars

\* ================================================================= music
MusicStepMs == 100
AutoStartDelayMs == 500

\* The page when the file has run, with or without #backgroundMusic and
\* with #musicToggle shown muted or not: the audio is paused, no promise
\* of play() is pending and no timer is set. byToggle tells that the music
\* plays because the user started it with the toggle.
NewMusic(audio, muted) ==
    [audio |-> audio, muted |-> muted, isMusicPlaying |-> FALSE,
     musicStarted |-> FALSE, hasInteracted |-> FALSE, paused |-> TRUE,
     pending |-> FALSE, timer |-> NoTimeout, byToggle |-> FALSE,
     did |-> "load"]

\* toggleMusic(): audio.pause() rejects the pending promises of play(),
\* audio.play() starts the audio and its promise is pending.
ToggleMusic(m) ==
    IF ~m.audio
      THEN m
      ELSE LET started == [m EXCEPT !.musicStarted = TRUE]
           IN IF started.isMusicPlaying
                THEN [started EXCEPT !.paused = TRUE, !.pending = FALSE,
                                     !.muted = TRUE,
                                     !.isMusicPlaying = FALSE]
                ELSE [started EXCEPT !.paused = FALSE, !.pending = TRUE]

\* The click listener of the document.
DocumentClick(m) ==
    IF ~m.hasInteracted /\ ~m.isMusicPlaying
      THEN [m EXCEPT !.hasInteracted = TRUE,
                     !.timer = IF m.audio /\ ~m.musicStarted
                                 THEN AutoStartDelayMs \div MusicStepMs
                                 ELSE @]
      ELSE m

MusicStep(m1) ==
    /\ music' = m1
    /\ UNCHANGED <<carVars, scrollVars, authVars, api, sink, usr, boot, news, thr>>

InitMusic ==
    /\ Elsewhere
    /\ \E audio \in BOOLEAN, muted \in BOOLEAN :
           Site(NotFollowed, NotFollowed, NotFollowed, NotFollowed,
                NotFollowed, NotFollowed, NewMusic(audio, muted))

\* A click on the page outside the music toggle.
ClickPage ==
    MusicStep([DocumentClick(music) EXCEPT !.did = "click"])

\* A click on the music toggle: toggleMusic() runs, then the click
\* reaches the listener of the document.
ClickMusicToggle ==
    LET toggled == ToggleMusic(music)
    IN MusicStep([DocumentClick(toggled) EXCEPT
                      !.byToggle = music.audio /\ ~toggled.paused,
                      !.did = "toggle"])

\* The promise of audio.play() resolves.
PlayResolves ==
    /\ music.pending
    /\ MusicStep([music EXCEPT !.pending = FALSE, !.isMusicPlaying = TRUE,
                               !.muted = FALSE, !.did = "played"])

\* The promise of audio.play() rejects: the audio does not play.
PlayRejects ==
    /\ music.pending
    /\ MusicStep([music EXCEPT !.pending = FALSE, !.paused = TRUE,
                               !.byToggle = FALSE, !.did = "failed"])

\* The track ends.
Ended ==
    /\ music.audio
    /\ ~music.paused
    /\ ~music.pending
    /\ MusicStep([music EXCEPT !.isMusicPlaying = FALSE, !.paused = TRUE,
                               !.muted = TRUE, !.byToggle = FALSE,
                               !.did = "ended"])

\* The timer of the first click fires.
AutoStartFires ==
    /\ music.timer = 0
    /\ MusicStep([ToggleMusic([music EXCEPT !.timer = NoTimeout]) EXCEPT
                      !.did = "auto-start"])

\* MusicStepMs pass while the timer of the first click is set and not due.
MusicTimePasses ==
    /\ music.timer > 0
    /\ MusicStep([music EXCEPT !.timer = @ - 1, !.did = "time"])

NextMusic ==
    \/ ClickPage
    \/ ClickMusicToggle
    \/ PlayResolves
    \/ PlayRejects
    \/ Ended
    \/ AutoStartFires
    \/ MusicTimePasses

SpecMusic == InitMusic /\ [][NextMusic]_vars

\* ============================================================= claims
Cursor == car.currentIndex

N == car.totalItems

\* The step that led here was the input named op.
JustDid(op) == last = op

\* C1: for every sequence of nextSlide/prevSlide calls (from a button, a
\* key, a swipe, a timer or the page) that starts at a cursor in [0, N),
\* the cursor equals (initial + next calls - previous calls) mod N and lies
\* in [0, N) after every call.
C1_CursorFollowsCalls ==
    lin.ok => /\ Cursor = lin.at % N
              /\ InRange(Cursor, N)

\* C1's case: three slides, the cursor was 2 and nextSlide wrapped it to 0.
C1_Witness ==
    /\ N = 3
    /\ lin.ok
    /\ lin.at = 3
    /\ Cursor = 0
    /\ car.calls.next = 1

\* C2: goToSlide(i) with i outside [0, N) leaves the cursor unchanged and
\* renders nothing, and with i inside [0, N) it sets the cursor to i, in
\* both classes.
C2_GoToSlideIgnoresOutOfRange ==
    [][\A index \in GotoArgs :
          CallGoToSlide(index) =>
              IF InRange(index, N)
                THEN car'.currentIndex = index
                ELSE /\ car'.currentIndex = car.currentIndex
                     /\ car'.calls.render = 0]_vars

\* C3: at most one live interval timer exists for the instance.
C3_AtMostOneTimer == Cardinality(DOMAIN car.timers) <= 1

\* Auto-play is running: the flag is set and the timer the instance holds
\* is live.
Running(s) == s.isAutoPlaying /\ s.autoPlayInterval \in DOMAIN s.timers

AutoPlayState(s) == <<s.isAutoPlaying, s.autoPlayInterval, s.timers>>

\* C4: startAutoPlay while auto-play is running leaves the flag, the handle
\* and the timers as they were, and so does stopAutoPlay while stopped.
C4_StartStopIdempotent ==
    [][/\ (CallStartAutoPlay /\ Running(car))
            => AutoPlayState(car') = AutoPlayState(car)
       /\ (CallStopAutoPlay /\ ~car.isAutoPlaying)
            => AutoPlayState(car') = AutoPlayState(car)]_vars

\* C5: once auto-play has been stopped, no timer callback runs nextSlide
\* until it is started again.
C5_NoCallbackAfterStop == (last = "timer") => car.isAutoPlaying

\* Every callback that was due has run.
NoTimerDue == \A id \in DOMAIN car.timers : car.timers[id] > 0

C7_NoAdvanceWithinInterval ==
    (last = "timer" /\ byHand /\ car.isAutoPlaying) => idle >= TicksPerInterval

\* C8: handleSwipe navigates only when |startX - endX| > 50: not at 49 or
\* 50, exactly one nextSlide at 51 leftward, exactly one prevSlide at 51
\* rightward.
C8_SwipeThreshold ==
    JustDid("touchend") =>
        LET diff == car.calls.swipe[1] - car.calls.swipe[2]
            c == car.calls
        IN /\ Abs(diff) <= SwipeThreshold
               => (c.next = 0 /\ c.prev = 0 /\ c.set = 0 /\ c.render = 0)
           /\ diff > SwipeThreshold => (c.next = 1 /\ c.prev = 0)
           /\ diff < 0 - SwipeThreshold => (c.next = 0 /\ c.prev = 1)

\* C8's case: a swipe of 51 pixels to the left made exactly one nextSlide
\* call.
C8_Witness ==
    /\ JustDid("touchend")
    /\ car.calls.swipe[1] - car.calls.swipe[2] = SwipeThreshold + 1
    /\ car.calls.next = 1
    /\ car.calls.prev = 0
    /\ car.calls.render = 1

\* C9: exactly one indicator is active, the one at the cursor, and the
\* progress fill is (cursor + 1) / N.
C9_OneActiveIndicator ==
    /\ Cardinality({i \in DOMAIN car.indicators : car.indicators[i]}) = 1
    /\ Cursor \in DOMAIN car.indicators
    /\ car.indicators[Cursor]
    /\ car.progress[1] * N = (Cursor + 1) * 100 * car.progress[2]

\* The slide at index is in none of the buckets 0, 1, 2, 3 relative to the
\* cursor of s.
Uncovered(s, index) ==
    RelativeIndex(index, s.currentIndex, s.totalItems) \notin {0, 1, 2, 3}

Position(item) == <<item.left, item.transform, item.zIndex>>

\* C10: a render leaves a slide in none of the buckets with the left,
\* transform and z-index it had before the render.
C10_UncoveredKeepsPosition ==
    [][(car.kind = "hero" /\ car'.calls.render > 0)
          => \A i \in DOMAIN car.items :
                 Uncovered(car', i) => Position(car'.items[i]) = Position(car.items[i])]_vars

\* C10 as amended: a slide in none of the buckets receives no positioning:
\* the render resets its inline left, transform and z-index to the empty
\* string and takes 'active' from it, whatever it had before.
C10_UncoveredCleared ==
    car.kind = "hero"
        => \A i \in DOMAIN car.items : Uncovered(car, i) => car.items[i] = BlankItem

\* C10's case: five slides, the slide at 0 was the active one and the
\* render after nextSlide left it in no bucket.
C10_Witness ==
    /\ car.kind = "hero"
    /\ N = 5
    /\ JustDid("nextSlide")
    /\ Cursor = 1
    /\ Uncovered(car, 0)
    /\ car.items[0] = BlankItem

\* C11: on a page with no slides the carousel binds no listener, starts no
\* timer, and its cursor stays a number under every later event and call.
C11_EmptyCarouselInert ==
    N = 0 => /\ ~car.listeners
             /\ DOMAIN car.timers = {}
             /\ Cursor # NaN

\* C12: a render raises nothing when the indicators or the progress element
\* are missing from the page, and the cursor the handler set stays set.
C12_RenderNeverRaises == car.calls.render > 0 => ~car.calls.raised

\* C13: a reveal mark that was set stays set: no later scroll or resize
\* clears it, in ProgressiveScrollReveal and in ScrollReveal3D.
C13_RevealNeverCleared == \A l \in Lists : seen[l] => page.marks[l]

\* C13's case: a scroll has moved the element out of the reach of both
\* tests, and the marks the two engines set earlier are still there.
C13_Witness ==
    /\ step = "scroll"
    /\ page.marks["element-reveal"]
    /\ ~ProgressiveIsInViewport(Rect(page.box, page.win), page.win.h,
                                ThresholdTenths("element-reveal"))
    /\ page.marks["scroll-reveal"]
    /\ ~ScrollReveal3DIsInViewport(Rect(page.box, page.win), page.win.cached)

\* The part of the element's height that lies in the window.
Overlap(rect, windowHeight) ==
    Max(0, Min(rect.bottom, windowHeight) - Max(rect.top, 0))

\* The visibility ratio, overlap / height, is above tenths / 10.
RatioExceeds(b, w, tenths) == 10 * Overlap(Rect(b, w), w.h) > tenths * b.height

\* The step checked the elements of list l.
Checks(name, l) ==
    \/ name \in {"scroll", "frame"}
    \/ name = "resize" /\ l \in ProgressiveLists

\* C14: a reveal check marks an unrevealed element exactly when its
\* visibility ratio exceeds the threshold, in every list of both engines.
C14_RevealedIffRatioExceeds ==
    [][\A l \in Lists :
          (Checks(step', l) /\ ~page.marks[l])
              => (page'.marks[l]
                    <=> RatioExceeds(page'.box, page'.win, ThresholdTenths(l)))]_vars

\* C15: after updateScrollProgress the width is scrolled / (scrollHeight -
\* viewportHeight) in percent, clamped to [0, 100], at every offset.
C15_ProgressClamped ==
    step \in {"scroll", "frame"} =>
        LET docHeight == ScrollHeight - page.win.h
            clamped == Max(0, Min(100 * docHeight, 100 * page.win.y))
        IN page.bar[1] * docHeight = clamped * page.bar[2]

\* C16: within one animation frame each of the five functions runs at most
\* once, however many scroll events the frame receives.
C16_OncePerFrame == \A f \in Engines : page.runs[f] <= 1

\* C20: no scroll engine writes the style of a .story-slide element.
C20_SlidesWrittenByCarouselOnly ==
    \A i \in DOMAIN page.slides : page.slides[i].by = "none"

\* The calls of the provider among the awaited calls that failed.
ProviderFailed(c) == c.failed \ StoreCalls

\* C17: an operation of firebaseAuth settles with a success flag and a
\* non-empty message; it reports success = false whenever a call of the
\* provider or of the document store inside it failed, and success = true
\* only when its provider calls succeeded.
C17_FailureGivesFalse ==
    Settled(call) =>
        /\ call.result.success \in BOOLEAN
        /\ call.result.message # <<>>
        /\ call.failed # {} => ~call.result.success
        /\ call.result.success => ProviderFailed(call) = {}

\* C18: the message of a failed operation is the string its table holds
\* for the provider's code, or its generic string when the table has no
\* case for the code, and never the provider's text, for register too.
C18_MessageFromTable ==
    (Settled(call) /\ ~call.result.success /\ call.code # "none") =>
        call.result.message =
            IF call.code \in Table(call.op)
              THEN TableMessage(call.op, call.code)
              ELSE Generic(call.op)

\* C19: handleLogout calls firebaseAuth.logout() only when the user has
\* confirmed the question, never when the user cancelled, and it shows
\* the success or the error dialog only when that call has settled, the
\* one that fits its result.
C19_LogoutAfterConfirm ==
    /\ flow.logout # NoCall => flow.choice = "confirmed"
    /\ flow.choice = "cancelled" => (flow.logout = NoCall /\ flow.dialog = "none")
    /\ flow.dialog \in {"success", "error"} =>
           /\ Settled(flow.logout)
           /\ (flow.dialog = "success") <=> flow.logout.result.success

\* C19's case: the user confirmed, signOut rejected, and the error dialog
\* is shown after logout() has resolved with success = false.
C19_Witness ==
    /\ flow.choice = "confirmed"
    /\ Settled(flow.logout)
    /\ "signOut" \in flow.logout.failed
    /\ ~flow.logout.result.success
    /\ flow.dialog = "error"

\* C26: on an auto-playing AdvancedHeroCarousel no timer callback advances
\* the slide while the pointer is inside the carousel, whatever clicks, keys
\* or swipes happen there.
C26_NoAdvanceWhileHovering ==
    (car.kind = "hero" /\ hover /\ car.isAutoPlaying) => last # "timer"

\* C21: every call of the global trackEvent reaches the event sink: the
\* records of GameAnalytics.events are the calls made, each with its event
\* name, its category and its properties.
C21_EventsReachSink ==
    /\ Len(sink.events) = Len(sink.emitted)
    /\ \A i \in 1..Len(sink.emitted) :
           sink.events[i] = [event |-> sink.emitted[i].name,
                             category |-> sink.emitted[i].category,
                             properties |-> sink.emitted[i].properties]

\* C22: the token in memory is the value stored under 'access_token',
\* both absent after clearToken and logout; a failed login leaves both as
\* they were; isAuthenticated() is true exactly when the token is a
\* non-empty string.
C22_TokenMatchesStorage ==
    /\ api.token = api.stored
    /\ api.did.op \in {"clearToken", "logout"} => api.token = Absent
    /\ api.did.op = "login failed" => <<api.token, api.stored>> = api.did.before
    /\ IsAuthenticated(api) <=> (api.token \in Tokens /\ api.token # "")

\* C22's case: a login failed while a token was held, and the token and
\* the stored value are still that token.
C22_Witness ==
    /\ api.did.op = "login failed"
    /\ api.did.before = <<"jwt-a", "jwt-a">>
    /\ api.token = "jwt-a"
    /\ api.stored = "jwt-a"
    /\ IsAuthenticated(api)

\* C23: no two calls of register that returned success and saved their
\* record saved the same username.
C23_UsernamesUnique ==
    \A p, q \in Registrations :
        (/\ p # q
         /\ usr.calls[p].pc = "returned" /\ usr.calls[p].success /\ usr.calls[p].saved
         /\ usr.calls[q].pc = "returned" /\ usr.calls[q].success /\ usr.calls[q].saved
         /\ usr.calls[p].email # usr.calls[q].email)
        => usr.calls[p].username # usr.calls[q].username

\* C24: the username and createdAt saved at registration are those of the
\* user's document ever after, and checkUsernameExists finds the username.
C24_RegistrationPreserved ==
    \A uid \in DOMAIN usr.registered :
        /\ uid \in DOMAIN usr.docs
        /\ usr.docs[uid].username = usr.registered[uid].username
        /\ usr.docs[uid].createdAt = usr.registered[uid].createdAt
        /\ CheckUsernameExists(usr.docs, usr.registered[uid].username)

\* C25: when register returns success, the record with the uid, the email
\* and the username is in the collection.
C25_SuccessMeansSaved ==
    \A p \in Registrations :
        (usr.did = <<"register", p>> /\ usr.calls[p].success) =>
            LET uid == UidOf(usr.calls[p].email)
            IN /\ uid \in DOMAIN usr.docs
               /\ usr.docs[uid].uid = uid
               /\ usr.docs[uid].email = usr.calls[p].email
               /\ usr.docs[uid].username = usr.calls[p].username

\* C27: at most one AdvancedHeroCarousel is ever constructed in a page
\* load.
C27_OneHeroCarousel == boot.instances <= 1

\* C28: a submit of the newsletter form runs Newsletter.handleSubmit
\* exactly once.
C28_OneRunPerSubmit == news.did = "submit" => news.runs = 1

\* C29: while scroll events arrive less than 1000 ms apart, trackScroll
\* has run within the last 1000 ms of the run of events, and two runs of
\* trackScroll are never less than 1000 ms apart.
C29_RateLimited ==
    /\ thr.did = "scroll" => thr.unserved <= WaitSteps
    /\ thr.did = "trackScroll" => thr.between >= WaitSteps

\* C30: when the delayed toggleMusic of the first click has run and the
\* user had started the music with the toggle before, the music plays.
C30_AutoStartKeepsChoice ==
    (music.did = "auto-start" /\ music.byToggle) => ~music.paused

====
